---- MODULE Spec2Model ----
(***************************************************************************)
(* A model of the live file-tailing engine of Slurmer (src/utils/fw.rs):   *)
(* the Handle, the Watcher thread, the Reader threads, the channels and    *)
(* the reader-slot mutex between them, and the Reader's update pass over a *)
(* file that grows and is truncated underneath it.                         *)
(*                                                                         *)
(* Two groups of variables are kept side by side.  The engine group models *)
(* the threads and channels (reports carry only their origin and kind);    *)
(* the reader group models one FileReader against a file whose content is  *)
(* a sequence of bytes.  Each specification moves one group and leaves the *)
(* other alone.                                                            *)
(*                                                                         *)
(* Further down: the consumer, LogView of src/ui/logview.rs, as the owner  *)
(* of the Handle and of the output channel's receiver; and the older       *)
(* engine, src/utils/file_watcher.rs, over the same state.                 *)
(***************************************************************************)
EXTENDS Integers, Sequences, FiniteSets, TLC

(***************************************************************************)
(* Bounds of the engine model.                                             *)
(***************************************************************************)
\* watch requests the Handle may send (one channel generation per request)
MaxReq == 2
\* reports waiting in the Watcher's inner content channel
MaxContent == 1
\* reports waiting in the engine's output channel
MaxOut == 1
\* wake signals waiting in one wake channel
MaxWake == 2
\* OS notifications waiting in the Watcher's watch channel
MaxOs == 1

None == "none"
Paths == {"A", "B"}
Targets == Paths \cup {None}
Gens == 1..MaxReq

VARIABLES
    h_file_path,  \* FileWatcherHandle.file_path
    h_alive,      \* the Handle (the control channel's only sender) exists
    ctl,          \* control channel: requests sent and not yet received
    call_tick,    \* flips at every set_file_path call, sending or not
    last_arg,     \* argument of the latest set_file_path call
    w_pc,         \* where the Watcher thread is in FileWatcher::run
    w_msg,        \* the request the Watcher is handling
    w_file_path,  \* FileWatcher.file_path
    gen,          \* number of (content, notify) channel pairs made in the loop
    content,      \* the Watcher's current inner content channel
    wakes,        \* wakes[g]: () messages waiting in the notify channel of pair g
    watched,      \* paths registered with the notify watcher
    osq,          \* watch_receiver: OS notifications not yet received
    slot,         \* reader_state: 0 is None, g is Some(the Reader of pair g)
    lock,         \* holder of the reader_state mutex: 0 free, t a Reader thread
    rstate,       \* rstate[g]: life of the Reader made for pair g
    tstate,       \* tstate[t]: position of the thread spawned for pair t
    truns,        \* truns[t]: the Reader thread t took from the slot (0: none)
    out,          \* the engine's output channel (self.content_sender)
    c_alive,      \* the consumer's receiver of the output channel exists
    sent,         \* history: the requests the Handle put on the control channel
    taken         \* history: the requests the Watcher received, in order

evars == <<h_file_path, h_alive, ctl, call_tick, last_arg, w_pc, w_msg, w_file_path,
           gen, content, wakes, watched, osq, slot, lock, rstate, tstate, truns, out,
           c_alive, sent, taken>>

\* the history variables
hist == <<sent, taken>>

\* the reader model's variables (the model itself is further down)
VARIABLES
    f_exists,    \* the file can be opened
    f_data,      \* the file's content
    r_pos,       \* FileReader.pos, the cursor
    r_pc,        \* where the Reader is: "start", "wait", or "opened" inside update
    r_trunc,     \* is_truncated of the update in progress
    r_by,        \* what started the latest update: "initial", "wake" or "timeout"
    r_wakes,     \* () messages waiting in the Reader's notify channel
    r_last,      \* the latest report sent on the content channel
    emitted,     \* the texts of all deltas sent so far, concatenated
    r_start,     \* the cursor FileReader::new chose
    n_app,       \* bytes appended so far
    n_trunc,     \* truncations so far
    kept,        \* size the latest truncation cut the file to (-1: none yet)
    ever_reset,  \* some update found the size below the cursor and reset it
    r_sends      \* messages the latest update pass has sent on the content channel

rvars == <<f_exists, f_data, r_pos, r_pc, r_trunc, r_by, r_wakes, r_last, emitted,
           r_start, n_app, n_trunc, kept, ever_reset, r_sends>>

\* the consumer, LogView of src/ui/logview.rs (its operations are further down)
VARIABLES
    visible,      \* LogView.visible
    stdout_path,  \* LogView.stdout_path
    stderr_path,  \* LogView.stderr_path
    current_tab,  \* LogView.current_tab
    log_content,  \* LogView.log_content: for each line the Reader whose report
                  \* brought it, 0 for a line the view wrote itself
    ui_pc,        \* where the UI thread is: "idle", or "tick" inside handle_tick
    tick_queued   \* history: reports in the output channel when the tick began

uvars == <<visible, stdout_path, stderr_path, current_tab, log_content, ui_pc,
           tick_queued>>

\* threads that ended in a panic, and the buffer of the FileReader of
\* src/utils/file_watcher.rs (that engine is further down)
VARIABLES
    panicked,     \* the threads that panicked
    o_content     \* FileReader.content of file_watcher.rs

ovars == <<panicked, o_content>>

\* the view model: one LogView of src/ui/logview.rs with every field its drain
\* writes, against an arbitrary stream of reports (its operations are further
\* down)
VARIABLES
    lv_visible,                    \* LogView.visible
    lv_current_tab,                \* LogView.current_tab
    lv_log_content,                \* LogView.log_content: 0 for a line the view wrote
                                   \* itself, i for the i-th line of the report that brought it
    lv_scroll_position,            \* LogView.scroll_position
    lv_auto_scroll,                \* LogView.auto_scroll
    lv_file_changed_notification,  \* LogView.file_changed_notification
    lv_truncated,                  \* LogView.truncated
    lv_rx                          \* the reports waiting in LogView.file_watcher_rx

lvars == <<lv_visible, lv_current_tab, lv_log_content, lv_scroll_position, lv_auto_scroll,
           lv_file_changed_notification, lv_truncated, lv_rx>>

(***************************************************************************)
(* Reports.  src is the pair (generation) of the Reader that produced the  *)
(* report, 0 for the Watcher itself.                                       *)
(***************************************************************************)
Report(s, k) == [src |-> s, kind |-> k]
ReaderKinds == {"delta", "ioerr"}

EInit ==
    /\ h_file_path = None
    /\ h_alive = TRUE
    /\ ctl = << >>
    /\ call_tick = 0
    /\ last_arg = None
    /\ w_pc = "start"
    /\ w_msg = None
    /\ w_file_path = None
    /\ gen = 0
    /\ content = << >>
    /\ wakes = [g \in 0..MaxReq |-> 0]
    /\ watched = {}
    /\ osq = << >>
    /\ slot = 0
    /\ lock = 0
    /\ rstate = [g \in Gens |-> "none"]
    /\ tstate = [t \in Gens |-> "none"]
    /\ truns = [t \in Gens |-> 0]
    /\ out = << >>
    /\ c_alive = TRUE
    /\ sent = << >>
    /\ taken = << >>

(***************************************************************************)
(* Channel pairs.  The Watcher makes a new (content, notify) pair for      *)
(* every request it receives (fw.rs 142-144) and drops its ends of the     *)
(* previous pair; when its loop returns it drops its ends of the last one. *)
(* The Reader made for pair r holds the content sender and a notify        *)
(* receiver of pair r.                                                     *)
(***************************************************************************)
\* the Watcher no longer holds its ends of pair r
NeverSuperseded(r) == FALSE
Superseded(r) == r # gen \/ w_pc = "done"

\* the content channel of pair r still has its receiver: a send on it succeeds
Connected(r) == ~Superseded(r)

\* the notify channel of pair r still has its sender
SenderAlive(r) == ~Superseded(r)

\* a Reader that still holds its channel ends: in the slot or running
LiveReader(g) == g \in Gens /\ rstate[g] \in {"created", "active"}

\* the content channel made at line 143
KeepContentChannel(old) == old
NewContentChannel(old) == << >>

ResetChannels ==
    /\ gen' = gen + 1
    /\ content' = NewContentChannel(content)

(***************************************************************************)
(* FileWatcherHandle                                                       *)
(***************************************************************************)
\* the comparison of line 71
NeverSameTarget(remembered, x) == FALSE
SameTarget(remembered, x) == remembered = x

\* self.sender.send of line 73; a failed send is only logged
SendControlInFront(x) == IF w_pc # "done" THEN <<x>> \o ctl ELSE ctl
SendControl(x) == IF w_pc # "done" THEN Append(ctl, x) ELSE ctl

\* lines 73-75: what a failed send does to the calling thread; the error is
\* written to stderr and the call returns
PanicsOnSendError(ok) == ~ok
CallerPanics(ok) == FALSE

\* set_file_path, lines 70-77, as the engine and the calling thread see it
SetFilePathCall(x) ==
    /\ h_alive
    /\ "caller" \notin panicked
    /\ call_tick' = 1 - call_tick
    /\ last_arg' = x
    /\ IF ~SameTarget(h_file_path, x)
       THEN /\ gen + Len(ctl) < MaxReq
            /\ h_file_path' = x
            /\ ctl' = SendControl(x)
            /\ sent' = IF w_pc # "done" THEN Append(sent, x) ELSE sent
            /\ panicked' = IF CallerPanics(w_pc # "done")
                           THEN panicked \cup {"caller"} ELSE panicked
       ELSE UNCHANGED <<h_file_path, ctl, sent, panicked>>
    /\ UNCHANGED <<h_alive, w_pc, w_msg, w_file_path, gen, content, wakes, watched,
                   osq, slot, lock, rstate, tstate, truns, out, c_alive, taken>>
    /\ UNCHANGED <<rvars, o_content, lvars>>

\* a call by an owner other than the LogView
SetFilePath(x) ==
    /\ SetFilePathCall(x)
    /\ UNCHANGED uvars

\* the owner of the Handle drops it: the control channel loses its sender
HandleDrop ==
    /\ h_alive
    /\ h_alive' = FALSE
    /\ UNCHANGED <<h_file_path, ctl, call_tick, last_arg, w_pc, w_msg, w_file_path, gen,
                   content, wakes, watched, osq, slot, lock, rstate, tstate, truns, out>>
    /\ UNCHANGED <<c_alive, hist>>
    /\ UNCHANGED <<rvars, uvars, ovars, lvars>>

(***************************************************************************)
(* FileWatcher::run                                                        *)
(***************************************************************************)
\* self.content_sender.send(x): the report is queued while the consumer's
\* receiver exists, else the send fails and nothing is queued
SendOut(x) == IF c_alive THEN Append(out, x) ELSE out

\* the bound of the output channel applies while it has a receiver
OutHasRoom == c_alive => Len(out) < MaxOut

\* lines 105-127: creating the notify watcher; on failure one error, then return
WatcherStart ==
    /\ w_pc = "start"
    /\ \E ok \in BOOLEAN :
         IF ok
         THEN w_pc' = "select" /\ out' = out
         ELSE /\ OutHasRoom
              /\ out' = SendOut(Report(0, "werr"))
              /\ w_pc' = "done"
    /\ UNCHANGED <<h_file_path, h_alive, ctl, call_tick, last_arg, w_msg, w_file_path, gen,
                   content, wakes, watched, osq, slot, lock, rstate, tstate, truns>>
    /\ UNCHANGED <<c_alive, hist>>
    /\ UNCHANGED <<rvars, uvars, ovars, lvars>>

\* lines 139-144: receive a request and replace both channel pairs
WatcherRecvControl ==
    /\ w_pc = "select"
    /\ ctl # << >>
    /\ w_msg' = Head(ctl)
    /\ ctl' = Tail(ctl)
    /\ ResetChannels
    /\ wakes' = [wakes EXCEPT ![gen] = IF LiveReader(gen) THEN @ ELSE 0]
    /\ w_pc' = "unwatch"
    /\ taken' = Append(taken, Head(ctl))
    /\ UNCHANGED <<h_file_path, h_alive, call_tick, last_arg, w_file_path, watched, osq,
                   slot, lock, rstate, tstate, truns, out, c_alive, sent>>
    /\ UNCHANGED <<rvars, uvars, ovars, lvars>>

\* line 140: msg? on Err(RecvError) returns from run
IgnoreDisconnected == "select"
AfterDisconnected == "done"

\* lines 139-140: the control channel is empty and has no sender: msg? returns
WatcherRecvDisconnected ==
    /\ w_pc = "select"
    /\ ctl = << >>
    /\ ~h_alive
    /\ w_pc' = AfterDisconnected
    /\ content' = << >>
    /\ watched' = {}
    /\ osq' = << >>
    /\ wakes' = [wakes EXCEPT ![gen] = IF LiveReader(gen) THEN @ ELSE 0]
    /\ UNCHANGED <<h_file_path, h_alive, ctl, call_tick, last_arg, w_msg, w_file_path, gen,
                   slot, lock, rstate, tstate, truns, out>>
    /\ UNCHANGED <<c_alive, hist>>
    /\ UNCHANGED <<rvars, uvars, ovars, lvars>>

\* lines 148-153: where the Watcher goes after watcher.unwatch returned; the
\* Err branch only sends the error
GiveUpOnUnwatchError(ok) == IF ok THEN "stop" ELSE "select"
AfterUnwatch(ok) == "stop"

\* lines 147-151: unwatch the previous path; a failure is reported and ignored
WatcherUnwatch ==
    /\ w_pc = "unwatch"
    /\ IF w_file_path # None
       THEN /\ \E ok \in BOOLEAN :
                 /\ w_pc' = AfterUnwatch(ok)
                 /\ IF ok
                    THEN out' = out /\ watched' = watched \ {w_file_path}
                    ELSE /\ OutHasRoom
                         /\ out' = SendOut(Report(0, "werr"))
                         /\ \E stays \in BOOLEAN :
                              watched' = IF stays THEN watched ELSE watched \ {w_file_path}
            /\ w_file_path' = None
       ELSE /\ w_pc' = "watch"
            /\ UNCHANGED <<out, watched, w_file_path>>
    /\ UNCHANGED <<h_file_path, h_alive, ctl, call_tick, last_arg, w_msg, gen, content,
                   wakes, osq, slot, lock, rstate, tstate, truns>>
    /\ UNCHANGED <<c_alive, hist>>
    /\ UNCHANGED <<rvars, uvars, ovars, lvars>>

\* line 155: *state = None drops a Reader no thread has taken
SlotKept(s) == s
SlotAfterStop(s) == 0

\* lines 153-155: lock the reader slot (blocking) and empty it
WatcherStopReader ==
    /\ w_pc = "stop"
    /\ lock = 0
    /\ slot' = SlotAfterStop(slot)
    /\ rstate' = IF slot # 0 /\ slot' = 0 THEN [rstate EXCEPT ![slot] = "dropped"] ELSE rstate
    /\ wakes' = IF slot # 0 /\ slot' = 0 THEN [wakes EXCEPT ![slot] = 0] ELSE wakes
    /\ w_pc' = "watch"
    /\ UNCHANGED <<h_file_path, h_alive, ctl, call_tick, last_arg, w_msg, w_file_path, gen,
                   content, watched, osq, lock, tstate, truns, out>>
    /\ UNCHANGED <<c_alive, hist>>
    /\ UNCHANGED <<rvars, uvars, ovars, lvars>>

\* line 163: self.file_path after watcher.watch returned; it is set in the Ok
\* branch only
AlwaysRequestedPath(ok, p, active) == p
PathAfterWatch(ok, p, active) == IF ok THEN p ELSE active

\* lines 159-171 and 191-203: watch the new path and make its Reader, or report
\* the failure; for a request without a path send the empty content
WatcherWatch ==
    /\ w_pc = "watch"
    /\ IF w_msg # None
       THEN \E ok \in BOOLEAN :
              /\ w_file_path' = PathAfterWatch(ok, w_msg, w_file_path)
              /\ IF ok
                 THEN /\ watched' = watched \cup {w_msg}
                      /\ rstate' = [rstate EXCEPT ![gen] = "created"]
                      /\ w_pc' = "store"
                      /\ UNCHANGED <<out, content, w_msg>>
                 ELSE /\ OutHasRoom
                      /\ out' = SendOut(Report(0, "werr"))
                      /\ w_pc' = "select"
                      /\ w_msg' = None
                      /\ UNCHANGED <<watched, rstate, content>>
       ELSE /\ content' = Append(content, Report(0, "delta"))
            /\ w_pc' = "select"
            /\ UNCHANGED <<watched, w_file_path, rstate, out, w_msg>>
    /\ UNCHANGED <<h_file_path, h_alive, ctl, call_tick, last_arg, gen, wakes, osq, slot,
                   lock, tstate, truns>>
    /\ UNCHANGED <<c_alive, hist>>
    /\ UNCHANGED <<rvars, uvars, ovars, lvars>>

\* lines 173-189: lock the slot (blocking), store the Reader, spawn its thread
\* and send the first wake
WatcherStore ==
    /\ w_pc = "store"
    /\ lock = 0
    /\ slot' = gen
    /\ tstate' = [tstate EXCEPT ![gen] = "spawned"]
    /\ wakes' = [wakes EXCEPT ![gen] = @ + 1]
    /\ w_pc' = "select"
    /\ w_msg' = None
    /\ UNCHANGED <<h_file_path, h_alive, ctl, call_tick, last_arg, w_file_path, gen,
                   content, watched, osq, lock, rstate, truns, out>>
    /\ UNCHANGED <<c_alive, hist>>
    /\ UNCHANGED <<rvars, uvars, ovars, lvars>>

\* lines 208-214: an OS notification becomes a wake on the current notify channel
WatcherForwardWake ==
    /\ w_pc = "select"
    /\ osq # << >>
    /\ osq' = Tail(osq)
    /\ IF LiveReader(gen)
       THEN /\ wakes[gen] < MaxWake
            /\ wakes' = [wakes EXCEPT ![gen] = @ + 1]
       ELSE wakes' = wakes
    /\ UNCHANGED <<h_file_path, h_alive, ctl, call_tick, last_arg, w_pc, w_msg, w_file_path,
                   gen, content, watched, slot, lock, rstate, tstate, truns, out>>
    /\ UNCHANGED <<c_alive, hist>>
    /\ UNCHANGED <<rvars, uvars, ovars, lvars>>

\* line 220: content_result.map_err(FileWatcherError::File) keeps the report
\* and its origin, an Err only wrapped as the File kind
ErrorsAsEmptyContent(report) == [report EXCEPT !.kind = "delta"]
Forwarded(report) == report

\* lines 216-227: forward a report of the current content channel to the output
WatcherForwardContent ==
    /\ w_pc = "select"
    /\ content # << >>
    /\ OutHasRoom
    /\ out' = SendOut(Forwarded(Head(content)))
    /\ content' = Tail(content)
    /\ UNCHANGED <<h_file_path, h_alive, ctl, call_tick, last_arg, w_pc, w_msg, w_file_path,
                   gen, wakes, watched, osq, slot, lock, rstate, tstate, truns>>
    /\ UNCHANGED <<c_alive, hist>>
    /\ UNCHANGED <<rvars, uvars, ovars, lvars>>

(***************************************************************************)
(* The thread spawned at lines 178-184 and FileReader::run inside it.      *)
(* The MutexGuard made in the scrutinee of the `if let` of line 179 lives  *)
(* to the end of the `if let`: the thread holds the reader_state mutex for *)
(* as long as the Reader it took is running.                               *)
(***************************************************************************)
\* holder of the mutex once thread t took a Reader from the slot
ReleasedAfterTake(t) == 0
HeldWhileRunning(t) == t

\* line 179: lock the slot (blocking) and take the Reader, or find it empty
ThreadTake(t) ==
    /\ tstate[t] = "spawned"
    /\ lock = 0
    /\ IF slot # 0
       THEN /\ truns' = [truns EXCEPT ![t] = slot]
            /\ rstate' = [rstate EXCEPT ![slot] = "active"]
            /\ slot' = 0
            /\ lock' = HeldWhileRunning(t)
            /\ tstate' = [tstate EXCEPT ![t] = "init"]
       ELSE /\ tstate' = [tstate EXCEPT ![t] = "done"]
            /\ UNCHANGED <<truns, rstate, slot, lock>>
    /\ UNCHANGED <<h_file_path, h_alive, ctl, call_tick, last_arg, w_pc, w_msg, w_file_path,
                   gen, content, wakes, watched, osq, out>>
    /\ UNCHANGED <<c_alive, hist>>
    /\ UNCHANGED <<rvars, uvars, ovars, lvars>>

\* run returns: the Reader is retired, its thread ends and drops the guard
ReaderExit(t) ==
    /\ rstate' = [rstate EXCEPT ![truns[t]] = "retired"]
    /\ tstate' = [tstate EXCEPT ![t] = "done"]
    /\ lock' = IF lock = t THEN 0 ELSE lock
    /\ wakes' = [wakes EXCEPT ![truns[t]] = 0]
    /\ UNCHANGED content

\* FileReader::update, lines 290-342, as the engine sees it: one report, a delta
\* or an I/O error, is sent on the Reader's content channel; a failed send makes
\* run return (the ? of lines 271, 278, 284)
ReaderUpdate(t, w) ==
    \E k \in ReaderKinds :
       IF Connected(truns[t])
       THEN /\ Len(content) < MaxContent
            /\ content' = Append(content, Report(truns[t], k))
            /\ tstate' = [tstate EXCEPT ![t] = "loop"]
            /\ wakes' = w
            /\ UNCHANGED <<rstate, lock>>
       ELSE ReaderExit(t)

\* line 271: the update before the loop
ReaderInitialUpdate(t) ==
    /\ tstate[t] = "init"
    /\ ReaderUpdate(t, wakes)
    /\ UNCHANGED <<h_file_path, h_alive, ctl, call_tick, last_arg, w_pc, w_msg, w_file_path,
                   gen, watched, osq, slot, truns, out>>
    /\ UNCHANGED <<c_alive, hist>>
    /\ UNCHANGED <<rvars, uvars, ovars, lvars>>

\* lines 276-279: a wake is received, one update follows
ReaderWake(t) ==
    /\ tstate[t] = "loop"
    /\ wakes[truns[t]] > 0
    /\ ReaderUpdate(t, [wakes EXCEPT ![truns[t]] = @ - 1])
    /\ UNCHANGED <<h_file_path, h_alive, ctl, call_tick, last_arg, w_pc, w_msg, w_file_path,
                   gen, watched, osq, slot, truns, out>>
    /\ UNCHANGED <<c_alive, hist>>
    /\ UNCHANGED <<rvars, uvars, ovars, lvars>>

\* lines 276-277: the notify channel is empty and has no sender: run returns
ReaderDisconnected(t) ==
    /\ tstate[t] = "loop"
    /\ wakes[truns[t]] = 0
    /\ ~SenderAlive(truns[t])
    /\ ReaderExit(t)
    /\ UNCHANGED <<h_file_path, h_alive, ctl, call_tick, last_arg, w_pc, w_msg, w_file_path,
                   gen, watched, osq, slot, truns, out>>
    /\ UNCHANGED <<c_alive, hist>>
    /\ UNCHANGED <<rvars, uvars, ovars, lvars>>

\* lines 283-285: no wake within the interval, one update follows
ReaderTimeout(t) ==
    /\ tstate[t] = "loop"
    /\ wakes[truns[t]] = 0
    /\ SenderAlive(truns[t])
    /\ ReaderUpdate(t, wakes)
    /\ UNCHANGED <<h_file_path, h_alive, ctl, call_tick, last_arg, w_pc, w_msg, w_file_path,
                   gen, watched, osq, slot, truns, out>>
    /\ UNCHANGED <<c_alive, hist>>
    /\ UNCHANGED <<rvars, uvars, ovars, lvars>>

ReaderThread(t) ==
    \/ ThreadTake(t)
    \/ ReaderInitialUpdate(t)
    \/ ReaderWake(t)
    \/ ReaderDisconnected(t)
    \/ ReaderTimeout(t)

(***************************************************************************)
(* The surroundings of the engine.                                         *)
(***************************************************************************)
\* lines 109-120: the notify callback queues a data-modify event of a watched path
OsNotify(p) ==
    /\ p \in watched
    /\ Len(osq) < MaxOs
    /\ osq' = Append(osq, p)
    /\ UNCHANGED <<h_file_path, h_alive, ctl, call_tick, last_arg, w_pc, w_msg, w_file_path,
                   gen, content, wakes, watched, slot, lock, rstate, tstate, truns, out>>
    /\ UNCHANGED <<c_alive, hist>>
    /\ UNCHANGED <<rvars, uvars, ovars, lvars>>

\* the consumer takes one report from the output channel (try_recv)
ConsumerRecv ==
    /\ c_alive
    /\ out # << >>
    /\ out' = Tail(out)
    /\ UNCHANGED <<h_file_path, h_alive, ctl, call_tick, last_arg, w_pc, w_msg, w_file_path,
                   gen, content, wakes, watched, osq, slot, lock, rstate, tstate, truns>>
    /\ UNCHANGED <<c_alive, hist>>
    /\ UNCHANGED <<rvars, uvars, ovars, lvars>>

\* the consumer drops its receiver: what is queued goes with it
ConsumerDrop ==
    /\ c_alive
    /\ c_alive' = FALSE
    /\ out' = << >>
    /\ UNCHANGED <<h_file_path, h_alive, ctl, call_tick, last_arg, w_pc, w_msg, w_file_path,
                   gen, content, wakes, watched, osq, slot, lock, rstate, tstate, truns>>
    /\ UNCHANGED hist
    /\ UNCHANGED <<rvars, uvars, ovars, lvars>>

ENext ==
    \/ \E x \in Targets : SetFilePath(x)
    \/ HandleDrop
    \/ WatcherStart
    \/ WatcherRecvControl
    \/ WatcherRecvDisconnected
    \/ WatcherUnwatch
    \/ WatcherStopReader
    \/ WatcherWatch
    \/ WatcherStore
    \/ WatcherForwardWake
    \/ WatcherForwardContent
    \/ \E t \in Gens : ReaderThread(t)
    \/ \E p \in Paths : OsNotify(p)
    \/ ConsumerRecv


(***************************************************************************)
(* The reader model: one FileReader (fw.rs 233-343) against one file.      *)
(* The file's content is a sequence of bytes.  Bytes that are in the file  *)
(* when the Reader is made are OldByte; bytes appended later are NewBytes. *)
(* The Reader's content channel keeps its receiver throughout, so every    *)
(* send succeeds and the Reader stays in run.  It gets the one wake the     *)
(* Watcher sends with the spawn (line 189) and runs on timeouts after it.  *)
(***************************************************************************)
\* longest file
MaxLen == 3
\* largest size of the file when the Reader is made
MaxOld == 1
\* bytes appended over a run
MaxApp == 4
\* truncations over a run
MaxTrunc == 1

CR == "\r"
LF == "\n"
OldByte == "o"
NewBytes == {"a", CR, LF}

(***************************************************************************)
(* Lines 318-325: split on '\n', remove every '\r' of each line, join with *)
(* "\n".                                                                   *)
(***************************************************************************)
\* index of the first LF of s, 0 when there is none
FirstLF(s) ==
    IF \E i \in 1..Len(s) : s[i] = LF
    THEN CHOOSE i \in 1..Len(s) : s[i] = LF /\ \A j \in 1..(i - 1) : s[j] # LF
    ELSE 0

\* raw_content.split('\n')
RECURSIVE SplitLF(_)
SplitLF(s) ==
    IF FirstLF(s) = 0
    THEN <<s>>
    ELSE <<SubSeq(s, 1, FirstLF(s) - 1)>> \o SplitLF(SubSeq(s, FirstLF(s) + 1, Len(s)))

\* line.replace('\r', "")
KeepAfterLastCR(line) ==
    LET crs == {i \in 1..Len(line) : line[i] = CR}
    IN  IF crs = {} THEN line
        ELSE SubSeq(line, (CHOOSE i \in crs : \A j \in crs : j <= i) + 1, Len(line))
ReplaceCR(line) == SelectSeq(line, LAMBDA c : c # CR)

\* .join("\n")
RECURSIVE JoinLF(_)
JoinLF(ls) ==
    IF Len(ls) = 0 THEN << >>
    ELSE IF Len(ls) = 1 THEN ls[1]
    ELSE ls[1] \o <<LF>> \o JoinLF(Tail(ls))

Normalize(raw) ==
    LET lines == SplitLF(raw)
    IN  JoinLF([i \in 1..Len(lines) |-> ReplaceCR(lines[i])])

(***************************************************************************)
(* FileReader::new, lines 250-257: the cursor starts at the file's size,   *)
(* at 0 when the file cannot be opened.                                    *)
(***************************************************************************)
NewPosZero(exists, data) == 0
NewPos(exists, data) == IF exists THEN Len(data) ELSE 0

OldContent(n) == [i \in 1..n |-> OldByte]

Delta(text, trunc) == [kind |-> "delta", text |-> text, trunc |-> trunc]
IoError == [kind |-> "ioerr", text |-> << >>, trunc |-> FALSE]
NoReport == [kind |-> "none", text |-> << >>, trunc |-> FALSE]

RInit ==
    /\ f_exists \in BOOLEAN
    /\ \E n \in 0..MaxOld : f_data = IF f_exists THEN OldContent(n) ELSE << >>
    /\ r_pos = NewPos(f_exists, f_data)
    /\ r_start = r_pos
    /\ r_pc = "start"
    /\ r_trunc = FALSE
    /\ r_by = "none"
    /\ r_wakes = 1
    /\ r_last = NoReport
    /\ emitted = << >>
    /\ n_app = 0
    /\ n_trunc = 0
    /\ kept = -1
    /\ ever_reset = FALSE
    /\ r_sends = 0

(***************************************************************************)
(* FileReader::update, lines 290-342, in two steps: open, metadata, the    *)
(* truncation check and seek; then read, normalize and send.  The file may *)
(* change between the two.                                                 *)
(***************************************************************************)
\* line 297
IsTruncatedOrEqual(size, pos) == size <= pos
IsTruncated(size, pos) == size < pos

\* lines 300-305: where the read starts
SeekKeep(truncated, pos) == pos
SeekStart(truncated, pos) == IF truncated THEN 0 ELSE pos

\* line 310
CursorStays(pos, bytes_read) == pos
AdvanceCursor(pos, bytes_read) == pos + bytes_read

\* where run is after update sent an Err result: send returned Ok, so the ? of
\* lines 271, 278, 284 does not return and the loop selects again
StopAfterError == "stopped"
AfterError == "wait"

\* line 341 with an Err result: the report replaces the delta; sends_before
\* counts what the pass has sent so far
SendError(sends_before) ==
    /\ r_last' = IoError
    /\ r_sends' = sends_before + 1
    /\ r_pc' = AfterError
    /\ r_trunc' = FALSE
    /\ UNCHANGED emitted

\* lines 294-305; fail names the call that fails: "no", "metadata" or "seek"
\* lines 294-296: a failure of File::open or of metadata leaves self.pos alone
CursorLostOnFailedOpen(pos) == 0
CursorAfterFailedOpen(pos) == pos

UpdateOpen(fail) ==
    IF ~f_exists \/ fail = "metadata"
    THEN /\ SendError(0)
         /\ r_pos' = CursorAfterFailedOpen(r_pos)
         /\ UNCHANGED ever_reset
    ELSE /\ r_pos' = SeekStart(IsTruncated(Len(f_data), r_pos), r_pos)
         /\ ever_reset' = (ever_reset \/ IsTruncated(Len(f_data), r_pos))
         /\ IF fail = "seek"
            THEN SendError(0)
            ELSE /\ r_pc' = "opened"
                 /\ r_sends' = 0
                 /\ r_trunc' = IsTruncated(Len(f_data), r_pos)
                 /\ UNCHANGED <<r_last, emitted>>

\* what read_to_string reads from the cursor to the end of the file
RawContent == SubSeq(f_data, r_pos + 1, Len(f_data))

\* line 341 with an Ok result: the send does not depend on what was read
SkipsEmptyDelta(raw) == raw # << >>
SendsDelta(raw) == TRUE

\* lines 307-341
UpdateRead(fail) ==
    /\ r_pc = "opened"
    /\ IF fail
       THEN /\ SendError(r_sends)
            /\ UNCHANGED r_pos
       ELSE /\ r_pos' = AdvanceCursor(r_pos, Len(RawContent))
            /\ IF SendsDelta(RawContent)
               THEN /\ r_last' = Delta(Normalize(RawContent), r_trunc)
                    /\ r_sends' = r_sends + 1
               ELSE UNCHANGED <<r_last, r_sends>>
            /\ emitted' = emitted \o Normalize(RawContent)
            /\ r_pc' = "wait"
            /\ r_trunc' = FALSE
    /\ UNCHANGED <<f_exists, f_data, r_by, r_wakes, r_start, n_app, n_trunc, kept, ever_reset>>
    /\ UNCHANGED <<evars, uvars, ovars, lvars>>

(***************************************************************************)
(* FileReader::run, lines 269-288                                          *)
(***************************************************************************)
OpenFailures == {"no", "metadata", "seek"}

\* line 271: the update before the loop
RunInitial(fail) ==
    /\ r_pc = "start"
    /\ r_by' = "initial"
    /\ UpdateOpen(fail)
    /\ UNCHANGED <<f_exists, f_data, r_wakes, r_start, n_app, n_trunc, kept>>
    /\ UNCHANGED <<evars, uvars, ovars, lvars>>

\* lines 276-279: a wake is received
RunWake(fail) ==
    /\ r_pc = "wait"
    /\ r_wakes > 0
    /\ r_wakes' = r_wakes - 1
    /\ r_by' = "wake"
    /\ UpdateOpen(fail)
    /\ UNCHANGED <<f_exists, f_data, r_start, n_app, n_trunc, kept>>
    /\ UNCHANGED <<evars, uvars, ovars, lvars>>

\* lines 281-285: the default(self.interval) arm of the select
NoTimeoutArm == FALSE
TimeoutArm == TRUE

RunTimeout(fail) ==
    /\ TimeoutArm
    /\ r_pc = "wait"
    /\ r_wakes = 0
    /\ r_by' = "timeout"
    /\ UpdateOpen(fail)
    /\ UNCHANGED <<f_exists, f_data, r_wakes, r_start, n_app, n_trunc, kept>>
    /\ UNCHANGED <<evars, uvars, ovars, lvars>>

(***************************************************************************)
(* The file's writers                                                      *)
(***************************************************************************)
FileCreate ==
    /\ ~f_exists
    /\ f_exists' = TRUE
    /\ f_data' = << >>
    /\ UNCHANGED <<r_pos, r_pc, r_trunc, r_by, r_wakes, r_last, emitted, r_start,
                   n_app, n_trunc, kept, ever_reset, r_sends>>
    /\ UNCHANGED <<evars, uvars, ovars, lvars>>

FileAppend(c) ==
    /\ f_exists
    /\ Len(f_data) < MaxLen
    /\ n_app < MaxApp
    /\ f_data' = Append(f_data, c)
    /\ n_app' = n_app + 1
    /\ UNCHANGED <<f_exists, r_pos, r_pc, r_trunc, r_by, r_wakes, r_last, emitted,
                   r_start, n_trunc, kept, ever_reset, r_sends>>
    /\ UNCHANGED <<evars, uvars, ovars, lvars>>

FileTruncate(k) ==
    /\ f_exists
    /\ k < Len(f_data)
    /\ n_trunc < MaxTrunc
    /\ f_data' = SubSeq(f_data, 1, k)
    /\ n_trunc' = n_trunc + 1
    /\ kept' = k
    /\ UNCHANGED <<f_exists, r_pos, r_pc, r_trunc, r_by, r_wakes, r_last, emitted,
                   r_start, n_app, ever_reset, r_sends>>
    /\ UNCHANGED <<evars, uvars, ovars, lvars>>

ReaderStep ==
    \/ \E fail \in OpenFailures : RunInitial(fail)
    \/ \E fail \in OpenFailures : RunWake(fail)
    \/ \E fail \in OpenFailures : RunTimeout(fail)
    \/ \E fail \in BOOLEAN : UpdateRead(fail)

RNext ==
    \/ ReaderStep
    \/ FileCreate
    \/ \E c \in NewBytes : FileAppend(c)
    \/ \E k \in 0..MaxLen : FileTruncate(k)

\* no call fails except open on a missing file and nothing truncates the file
PollStep ==
    \/ RunInitial("no")
    \/ RunWake("no")
    \/ RunTimeout("no")
    \/ UpdateRead(FALSE)

PollNext ==
    \/ PollStep
    \/ FileCreate
    \/ \E c \in NewBytes : FileAppend(c)

vars == <<evars, rvars, uvars, ovars, lvars>>

\* LogView::new, lines 43-68, and no thread panicked
UInit ==
    /\ visible = FALSE
    /\ stdout_path = None
    /\ stderr_path = None
    /\ current_tab = "StdOut"
    /\ log_content = << >>
    /\ ui_pc = "idle"
    /\ tick_queued = 0

OInit ==
    /\ panicked = {}
    /\ o_content = << >>

\* LogView::new, lines 43-68, in the view model
LInit ==
    /\ lv_visible = FALSE
    /\ lv_current_tab = "StdOut"
    /\ lv_log_content = << >>
    /\ lv_scroll_position = 0
    /\ lv_auto_scroll = TRUE
    /\ lv_file_changed_notification = None
    /\ lv_truncated = FALSE
    /\ lv_rx = << >>

\* the reader model at rest, while the engine model moves
RIdle ==
    /\ f_exists = FALSE
    /\ f_data = << >>
    /\ r_pos = 0
    /\ r_start = 0
    /\ r_pc = "start"
    /\ r_trunc = FALSE
    /\ r_by = "none"
    /\ r_wakes = 0
    /\ r_last = NoReport
    /\ emitted = << >>
    /\ n_app = 0
    /\ n_trunc = 0
    /\ kept = -1
    /\ ever_reset = FALSE
    /\ r_sends = 0

Init == EInit /\ RIdle /\ UInit /\ OInit /\ LInit

Next == ENext

Spec == Init /\ [][Next]_vars

\* the engine when the consumer may drop its receiver of the output channel
DropNext == Next \/ ConsumerDrop

DropSpec == Init /\ [][DropNext]_vars

\* the reader model moves, the engine model rests
ReaderInit == RInit /\ EInit /\ UInit /\ OInit /\ LInit

ReaderNext == RNext

ReaderSpec == ReaderInit /\ [][ReaderNext]_vars

\* the polling Reader: its thread is scheduled and its timed wait ends
PollSpec ==
    /\ ReaderInit
    /\ [][PollNext]_vars
    /\ WF_vars(PollStep)

(***************************************************************************)
(* Types                                                                   *)
(***************************************************************************)
ETypeOK ==
    /\ h_file_path \in Targets
    /\ ctl \in Seq(Targets)
    /\ gen \in 0..MaxReq
    /\ slot \in 0..MaxReq
    /\ lock \in 0..MaxReq
    /\ \A g \in Gens : rstate[g] \in {"none", "created", "active", "retired", "dropped"}
    /\ \A t \in Gens : tstate[t] \in {"none", "spawned", "init", "loop", "done"}
    /\ Len(content) <= MaxContent
    /\ Len(out) <= MaxOut

RTypeOK ==
    /\ f_exists \in BOOLEAN
    /\ Len(f_data) <= MaxLen
    /\ r_pos \in 0..MaxLen
    /\ r_pc \in {"start", "wait", "opened"}
    /\ r_wakes \in 0..1
    /\ r_last.kind \in {"none", "delta", "ioerr"}

\* the Reader threads are scheduled and their timed wait ends: a Reader thread
\* that can take a step eventually takes one
FairSpec == Init /\ [][Next]_vars /\ \A t \in Gens : WF_vars(ReaderThread(t))

(***************************************************************************)
(* Claims about the engine                                                 *)
(***************************************************************************)

\* C1: once the Watcher has received a request that supersedes the request of
\* Reader r (it replaced the channel pair, gen > r), no report of Reader r,
\* delta or I/O error, is appended to the engine's output channel any more.
C1_NoReportAfterSupersede ==
    [][\A r \in Gens : \A k \in ReaderKinds :
          r < gen => out' # Append(out, Report(r, k))]_vars

\* a superseded Reader is still running with wakes pending while one of its
\* earlier reports sits in the output channel
C1_Witness ==
    \E r \in Gens :
       /\ r < gen
       /\ rstate[r] = "active"
       /\ wakes[r] > 0
       /\ out # << >>
       /\ out[1].src = r

\* C2: in every reachable state at most one Reader is Active (inside run); so no
\* Reader starts its loop while the Reader of an earlier request is still Active.
C2_AtMostOneActiveReader ==
    Cardinality({g \in Gens : rstate[g] = "active"}) <= 1

\* the Reader of a later request runs after the Reader of an earlier one retired
C2_Witness ==
    \E r, s \in Gens : r < s /\ rstate[r] = "retired" /\ rstate[s] = "active"

\* C3: a set_file_path call whose argument equals the remembered value sends
\* nothing and leaves the remembered value alone; a call with another value
\* remembers it and sends exactly one request; so the control channel never
\* holds the same target twice in a row and a request has at most one Reader.
C3_SetFilePathIdempotent ==
    /\ [][call_tick' # call_tick =>
            IF last_arg' = h_file_path
            THEN ctl' = ctl /\ h_file_path' = h_file_path
            ELSE /\ h_file_path' = last_arg'
                 /\ ctl' = IF w_pc # "done" THEN Append(ctl, last_arg') ELSE ctl]_vars
    /\ [](\A i \in 1..(Len(ctl) - 1) : ctl[i] # ctl[i + 1])
    /\ [](\A g \in Gens : rstate[g] # "none" => g <= gen)

\* an even number of calls, one of them sending: a call with the remembered
\* value was made; its one request was received and its one Reader runs
C3_Witness ==
    /\ call_tick = 0
    /\ gen = 1
    /\ ctl = << >>
    /\ h_file_path \in Paths
    /\ rstate[1] = "active"

\* C10: a Reader that is Active when a superseding request has been received
\* eventually leaves run and is retired, whatever wakes are still queued for it.
C10_SupersededReaderExits ==
    \A r \in Gens : (rstate[r] = "active" /\ r < gen) ~> (rstate[r] = "retired")

\* a superseded Reader is in its loop with two wakes queued
C10_Witness ==
    \E t \in Gens :
       /\ tstate[t] = "loop"
       /\ truns[t] < gen
       /\ wakes[truns[t]] >= 2

(***************************************************************************)
(* Claims about the Reader                                                 *)
(***************************************************************************)
\* s without its carriage returns
WithoutCR(s) == SelectSeq(s, LAMBDA c : c # CR)

\* the bytes of the file from the cursor FileReader::new chose up to the cursor
ReadSoFar == SubSeq(f_data, r_start + 1, r_pos)

\* a step that ends an update by sending a delta
DeltaSent == r_pc = "opened" /\ r_pc' = "wait" /\ r_last'.kind = "delta"

\* C4: while the file is only appended to, the texts of the deltas sent so far,
\* concatenated, are exactly the bytes between the cursor at creation and the
\* present cursor without their carriage returns: every byte once, in order,
\* and nothing from before the creation.
C4_DeltasAreTheAppendedBytes ==
    n_trunc = 0 =>
       /\ r_start <= r_pos
       /\ r_pos <= Len(f_data)
       /\ emitted = WithoutCR(ReadSoFar)

\* a file of one byte at creation, two bytes appended and sent in two deltas
C4_Witness ==
    /\ n_app = 2
    /\ n_trunc = 0
    /\ r_start = 1
    /\ r_pos = 3
    /\ emitted = <<"a", LF>>
    /\ r_last = Delta(<<LF>>, FALSE)

C6_TruncationResetsCursor ==
    [][/\ (r_pc # "opened" /\ r_pc' = "opened") =>
            /\ r_trunc' = (Len(f_data) < r_pos)
            /\ r_pos' = IF Len(f_data) < r_pos THEN 0 ELSE r_pos
       /\ (r_pc = "opened" /\ DeltaSent) =>
            /\ r_last'.trunc = r_trunc
            /\ r_trunc => /\ r_last'.text = Normalize(f_data)
                          /\ r_pos' = Len(f_data)]_vars

\* a delta with truncated = true and a text has been sent
C6_Witness ==
    /\ r_last.kind = "delta"
    /\ r_last.trunc
    /\ r_last.text # << >>
    /\ r_pos = Len(r_last.text)

\* Scenario C scaled down: the file was cut to kept >= 1 bytes, below the cursor,
\* and bytes were appended before the update that sees it
Retained == SubSeq(f_data, 1, kept)
AppendedSinceCut == SubSeq(f_data, kept + 1, Len(f_data))
ScenarioCRead ==
    /\ r_pc = "opened"
    /\ r_trunc
    /\ kept >= 1
    /\ Len(f_data) > kept
    /\ DeltaSent

\* C7 as claimed: the delta of Scenario C has truncated = true and its text is
\* exactly the bytes appended after the truncation.
C7_ScenarioCOnlyAppended ==
    [][ScenarioCRead =>
          /\ r_last'.trunc
          /\ r_last'.text = Normalize(AppendedSinceCut)]_vars

\* C7, amended: the delta of Scenario C has truncated = true and its text is the
\* bytes the truncation retained followed by the bytes appended after it.
C7_ScenarioCRetainedThenAppended ==
    [][ScenarioCRead =>
          /\ r_last'.trunc
          /\ r_last'.text = Normalize(Retained) \o Normalize(AppendedSinceCut)]_vars

\* three bytes written and read, the file cut to one byte, one byte appended:
\* the delta is truncated and holds both bytes
C7_Witness ==
    /\ r_start = 0
    /\ kept = 1
    /\ n_app = 4
    /\ r_pos = 2
    /\ r_last = Delta(<<"a", "a">>, TRUE)

\* the normalization C8 describes: of each line only what follows its last CR
LastCR(line) ==
    IF \E i \in 1..Len(line) : line[i] = CR
    THEN CHOOSE i \in 1..Len(line) : line[i] = CR /\ \A j \in (i + 1)..Len(line) : line[j] # CR
    ELSE 0
AfterLastCR(line) == SubSeq(line, LastCR(line) + 1, Len(line))
CollapseCR(raw) ==
    LET lines == SplitLF(raw)
    IN  JoinLF([i \in 1..Len(lines) |-> AfterLastCR(lines[i])])

\* C8: the text of every delta is the bytes read, split on newline, each line
\* cut down to what follows its last carriage return, rejoined with newline.
C8_CollapsesToLastCR ==
    [][(r_pc = "opened" /\ DeltaSent) => r_last'.text = CollapseCR(RawContent)]_vars

\* C9: with no wake after the first and no failing call, bytes in the file beyond
\* the cursor are eventually read by an update the timeout starts: the cursor
\* reaches the end of the file and the deltas sent hold the bytes read.
C9_PollingFallback ==
    (f_exists /\ r_pos < Len(f_data))
       ~> (r_pos >= Len(f_data) /\ emitted = WithoutCR(ReadSoFar))

\* an update started by the timeout has sent a delta with appended bytes
C9_Witness ==
    /\ r_by = "timeout"
    /\ r_pc = "wait"
    /\ r_wakes = 0
    /\ r_last.kind = "delta"
    /\ r_last.text # << >>

(***************************************************************************)
(* Claims about requests, errors and ordering                              *)
(***************************************************************************)
\* the empty content of line 198-202 is first in the inner content channel
NeutralQueued == content # << >> /\ Head(content) = Report(0, "delta")

\* C11: the empty delta the Watcher makes for a request without a path reaches
\* the output channel: while it waits in the inner content channel it stays
\* there until it is forwarded; and no Reader is ever made for such a request.
C11_NeutralDeltaDelivered ==
    /\ [][NeutralQueued => (content' = content \/ out' = Append(out, Head(content)))]_vars
    /\ [](\A g \in 1..Len(taken) : taken[g] = None => rstate[g] = "none")

\* the Watcher is about to register the path of the request it handles
WatchingPath == w_pc = "watch" /\ w_msg # None

\* C12: for a request naming a file that does not exist, what is reported for
\* that path comes from its Reader (an I/O error first): handling the request
\* makes a Reader and puts no subscription error on the output channel.
C12_MissingFileGetsReader ==
    [][(WatchingPath /\ ~f_exists) => (w_pc' = "store" /\ out' = out)]_vars

\* a step in which the registration of the requested path fails
WatchFails == WatchingPath /\ w_pc' = "select"

\* C13: a failed registration puts exactly one subscription error on the output
\* channel, leaves the active path empty, makes no Reader and no thread and
\* returns the Watcher to its select; a Reader is made only in a step that
\* registered the path of the request being handled, and that step reports
\* nothing.
C13_FailedWatchIsNotFatal ==
    [][/\ WatchFails =>
            /\ out' = Append(out, Report(0, "werr"))
            /\ w_file_path' = None
            /\ rstate' = rstate /\ tstate' = tstate /\ slot' = slot
       /\ \A g \in Gens : (rstate[g] = "none" /\ rstate'[g] # "none") =>
            /\ WatchingPath /\ g = gen
            /\ w_msg \in watched' /\ w_file_path' = w_msg
            /\ out' = out]_vars

\* the first request named a path and got no Reader: its registration failed;
\* the Watcher went on to receive the second request, whose Reader runs
C13_Witness ==
    /\ Len(taken) = 2
    /\ taken[1] \in Paths
    /\ rstate[1] = "none"
    /\ w_file_path = taken[2]
    /\ rstate[2] = "active"

\* a step in which unregistering the previous path fails
UnwatchFails == w_pc = "unwatch" /\ w_pc' # w_pc /\ w_file_path # None /\ out' # out

\* C14: a failed unwatch puts one subscription error on the output channel,
\* clears the active path all the same and goes on with the request: the slot
\* is emptied next, and by the time the Watcher registers the new path or
\* stores its Reader no Reader of an earlier request is left in the slot or
\* running.
C14_FailedUnwatchGoesOn ==
    /\ [][UnwatchFails =>
             /\ out' = Append(out, Report(0, "werr"))
             /\ w_file_path' = None
             /\ w_msg' = w_msg
             /\ w_pc' = "stop"]_vars
    /\ [][w_pc = "stop" => w_pc' \in {"stop", "watch"}]_vars
    /\ [](w_pc \in {"watch", "store"} => \A g \in Gens : g < gen => ~LiveReader(g))

\* the path of the first request is still registered although the second
\* request is being served: its unwatch failed; the first Reader is retired and
\* the second runs
C14_Witness ==
    /\ Len(taken) = 2
    /\ taken[1] # taken[2]
    /\ taken[1] \in watched
    /\ w_file_path = taken[2]
    /\ rstate[1] = "retired"
    /\ rstate[2] = "active"

\* a step of the Reader (the file's writers change none of these)
ReaderMoved ==
    \/ r_pc' # r_pc \/ r_by' # r_by \/ r_wakes' # r_wakes
    \/ r_last' # r_last \/ r_pos' # r_pos \/ emitted' # emitted

\* a step of the Reader that ends an update pass
PassEnded == ReaderMoved /\ r_pc' # "opened"

\* C15: every update pass ends with one report, an I/O error or a delta, and
\* with the Reader waiting for the next wake or timeout; an I/O error adds
\* nothing to what was emitted; as long as the file cannot be opened every pass
\* ends with an I/O error; a pass that has opened the file ends with the delta
\* of what it reads unless the read fails.
C15_IoErrorsAreNotTerminal ==
    [][ReaderMoved =>
         /\ PassEnded =>
              /\ r_pc' = "wait"
              /\ r_last'.kind \in {"ioerr", "delta"}
              /\ r_last'.kind = "ioerr" => emitted' = emitted
         /\ ~f_exists => (PassEnded /\ r_last' = IoError)
         /\ r_pc = "opened" =>
              /\ PassEnded
              /\ r_last' \in {IoError, Delta(Normalize(RawContent), r_trunc)}]_vars

\* the latest report is an I/O error and the pass after it has opened the file,
\* with bytes to read
C15_Witness ==
    /\ r_last = IoError
    /\ r_pc = "opened"
    /\ RawContent # << >>
    /\ r_by = "timeout"

\* a report of a Reader is put on the output channel
ReaderReportOut == Len(out') > Len(out) /\ out'[Len(out')].src # 0

StaleNotificationTaken ==
    /\ w_pc = "select"
    /\ osq # << >>
    /\ osq' = Tail(osq)
    /\ Head(osq) # w_file_path

\* C17: an OS notification for a path other than the active one is never turned
\* into a wake: taking it from the OS-notification channel leaves every wake
\* channel as it was.
C17_NoWakeForAnotherPath ==
    [][StaleNotificationTaken => wakes' = wakes]_vars

\* C18: the requests the Handle sent are the requests the Watcher received
\* followed by those still on the control channel, in the same order; the
\* Watcher receives a request only from its select, so after the one before it
\* was handled to the end, and it is the head of the channel; and when the
\* channel is empty and the Watcher is back in its select, the request it
\* received last is the value the Handle remembers.
C18_RequestsInSubmissionOrder ==
    /\ [](sent = taken \o ctl)
    /\ [][taken' # taken =>
             /\ w_pc = "select"
             /\ ctl # << >>
             /\ taken' = Append(taken, Head(ctl))
             /\ w_msg' = Head(ctl)
             /\ w_pc' = "unwatch"]_vars
    /\ []((ctl = << >> /\ w_pc = "select" /\ taken # << >>) =>
             taken[Len(taken)] = h_file_path)

\* two requests were sent and both were handled, in that order
C18_Witness ==
    /\ sent = <<"A", "B">>
    /\ taken = sent
    /\ ctl = << >>
    /\ w_pc = "select"
    /\ w_file_path = "B"

\* a step in which the Watcher sends on the output channel and the send fails:
\* it forwards a report, or reports a failed registration, with the receiver gone
OutputSendFails ==
    /\ ~c_alive
    /\ \/ w_pc = "select" /\ content # << >> /\ content' = Tail(content)
       \/ WatchFails

\* C19: when a send of the Watcher on the output channel fails because the
\* receiver is gone, the Watcher leaves its loop: run returns.
C19_WatcherExitsWhenOutputGone ==
    [][OutputSendFails => w_pc' = "done"]_vars

\* the Watcher is at a reader_state.lock() (line 154 or 175) and a Reader
\* thread holds the mutex
WatcherWaitsForLock == w_pc \in {"stop", "store"} /\ lock # 0

\* C20: while it handles a control message the Watcher never waits for a lock
\* that a Reader thread holds.
C20_WatcherNeverWaitsForLock == ~WatcherWaitsForLock

(***************************************************************************)
(* The empty path.  LogView::watch_current_path (logview.rs 249-303) turns  *)
(* the resolved path of the current tab into the Handle's target.          *)
(***************************************************************************)
Empty == ""

\* logview.rs 277-297: Some(path_str) becomes Some(PathBuf::from(&path_str)),
\* whatever the string holds; only None becomes None
WatchTarget(path) == path

\* the engine when the resolved path may be the empty string
EmptyNext == Next \/ SetFilePath(WatchTarget(Empty))

EmptySpec == Init /\ [][EmptyNext]_vars

(***************************************************************************)
(* The consumer: LogView (src/ui/logview.rs) on the UI thread, which owns  *)
(* the Handle and the receiver of the output channel.  Each operation runs *)
(* to its end on the UI thread; handle_tick (app.rs 688-704) is two steps, *)
(* so that the engine may move between the tick's start and its drain.     *)
(***************************************************************************)
\* lines the buffer keeps: the model's stand-in for max_lines of line 201
MaxLines == 2

\* the lines an operation writes itself after clearing (lines 86-87, 117-127
\* and 256-290), kept as one entry
OwnLines == <<0>>

\* log_content.clear() of lines 80 and 113
KeepLines(lines) == lines
Cleared(lines) == << >>

\* lines 200-206: split_off keeps the last max_lines lines
FirstLines(lines) ==
    IF Len(lines) > MaxLines
    THEN SubSeq(lines, 1, MaxLines)
    ELSE lines
LastLines(lines) ==
    IF Len(lines) > MaxLines
    THEN SubSeq(lines, Len(lines) - MaxLines + 1, Len(lines))
    ELSE lines

\* lines 250-253
CurrentPath(tab, so, se) == IF tab = "StdOut" THEN so ELSE se

\* lines 108-111
OtherTab(tab) == IF tab = "StdOut" THEN "StdErr" ELSE "StdOut"

\* show (70-73) and change_job (75-94): so and se are the paths fetch_log_paths
\* resolved, None when it resolved none
ChangeJob(so, se) ==
    /\ ui_pc = "idle"
    /\ visible' = TRUE
    /\ stdout_path' = so
    /\ stderr_path' = se
    /\ current_tab' = "StdOut"
    /\ log_content' = Cleared(log_content) \o OwnLines
    /\ SetFilePathCall(WatchTarget(CurrentPath("StdOut", so, se)))
    /\ UNCHANGED <<ui_pc, tick_queued>>

\* toggle_tab, lines 104-131
ToggleTab ==
    /\ ui_pc = "idle"
    /\ visible
    /\ current_tab' = OtherTab(current_tab)
    /\ log_content' = Cleared(log_content) \o OwnLines
    /\ SetFilePathCall(WatchTarget(CurrentPath(OtherTab(current_tab), stdout_path, stderr_path)))
    /\ UNCHANGED <<visible, stdout_path, stderr_path, ui_pc, tick_queued>>

\* hide, lines 96-102
Hide ==
    /\ ui_pc = "idle"
    /\ visible' = FALSE
    /\ SetFilePathCall(None)
    /\ UNCHANGED <<stdout_path, stderr_path, current_tab, log_content, ui_pc, tick_queued>>

\* lines 180-220: the buffers the drain of queue may leave.  A report of the
\* Watcher itself is an error or the empty content; a Reader's delta is empty,
\* or brings lines, after the truncation marker when is_truncated is set
RECURSIVE Drained(_, _)
Drained(lines, queue) ==
    IF queue = << >>
    THEN {lines}
    ELSE LET r == Head(queue)
             after == IF r.kind = "delta" /\ r.src # 0
                      THEN {lines,
                            LastLines(Append(lines, r.src)),
                            LastLines(lines \o <<0, r.src>>)}
                      ELSE {lines}
         IN  UNION {Drained(l, Tail(queue)) : l \in after}

\* App::handle_tick is entered, app.rs 688
HandleTick ==
    /\ ui_pc = "idle"
    /\ ui_pc' = "tick"
    /\ tick_queued' = Len(out)
    /\ UNCHANGED <<visible, stdout_path, stderr_path, current_tab, log_content>>
    /\ UNCHANGED <<evars, rvars, ovars, lvars>>

\* app.rs 701-702 and check_refresh, lines 174-229: try_recv until it fails
CheckRefresh ==
    /\ ui_pc = "tick"
    /\ visible
    /\ log_content' \in Drained(log_content, out)
    /\ out' = << >>
    /\ ui_pc' = "idle"
    /\ tick_queued' = 0
    /\ UNCHANGED <<visible, stdout_path, stderr_path, current_tab>>
    /\ UNCHANGED <<h_file_path, h_alive, ctl, call_tick, last_arg, w_pc, w_msg, w_file_path,
                   gen, content, wakes, watched, osq, slot, lock, rstate, tstate, truns>>
    /\ UNCHANGED <<c_alive, hist>>
    /\ UNCHANGED <<rvars, ovars, lvars>>

\* app.rs 701: the view is hidden and the tick ends without check_refresh
TickWhileHidden ==
    /\ ui_pc = "tick"
    /\ ~visible
    /\ ui_pc' = "idle"
    /\ tick_queued' = 0
    /\ UNCHANGED <<visible, stdout_path, stderr_path, current_tab, log_content>>
    /\ UNCHANGED <<evars, rvars, ovars, lvars>>

\* the engine with the LogView as its owner and consumer
UiNext ==
    \/ \E so, se \in Targets : ChangeJob(so, se)
    \/ ToggleTab
    \/ Hide
    \/ HandleTick
    \/ CheckRefresh
    \/ TickWhileHidden
    \/ WatcherStart
    \/ WatcherRecvControl
    \/ WatcherUnwatch
    \/ WatcherStopReader
    \/ WatcherWatch
    \/ WatcherStore
    \/ WatcherForwardWake
    \/ WatcherForwardContent
    \/ \E t \in Gens : ReaderThread(t)
    \/ \E p \in Paths : OsNotify(p)

UiSpec == Init /\ [][UiNext]_vars

(***************************************************************************)
(* The older engine, src/utils/file_watcher.rs, over the same state.  It   *)
(* has no reader slot and no mutex: the Reader is made inside the thread   *)
(* spawned for it (line 104).  Results it cannot use are unwrapped: the    *)
(* thread panics, and unwinding drops what it holds, as a return does.     *)
(***************************************************************************)
\* file_watcher.rs 180-182: self.sender.send(..).unwrap()
SendUnwrapPanics(ok) == ~ok

\* file_watcher.rs 177-184
OldSetFilePath(x) ==
    /\ h_alive
    /\ "caller" \notin panicked
    /\ call_tick' = 1 - call_tick
    /\ last_arg' = x
    /\ IF ~SameTarget(h_file_path, x)
       THEN /\ gen + Len(ctl) < MaxReq
            /\ h_file_path' = x
            /\ ctl' = SendControl(x)
            /\ sent' = IF w_pc # "done" THEN Append(sent, x) ELSE sent
            /\ panicked' = IF SendUnwrapPanics(w_pc # "done")
                           THEN panicked \cup {"caller"} ELSE panicked
       ELSE UNCHANGED <<h_file_path, ctl, sent, panicked>>
    /\ UNCHANGED <<h_alive, w_pc, w_msg, w_file_path, gen, content, wakes, watched,
                   osq, slot, lock, rstate, tstate, truns, out, c_alive, taken>>
    /\ UNCHANGED <<rvars, uvars, o_content, lvars>>

\* the Watcher thread ends, by a return or by a panic: its channel ends and
\* the notify watcher are dropped
OldWatcherEnds(panic) ==
    /\ w_pc' = "done"
    /\ panicked' = IF panic THEN panicked \cup {"watcher"} ELSE panicked
    /\ content' = << >>
    /\ watched' = {}
    /\ osq' = << >>
    /\ wakes' = [wakes EXCEPT ![gen] = IF LiveReader(gen) THEN @ ELSE 0]

\* file_watcher.rs 71-84: notify::recommended_watcher(..).unwrap()
OldWatcherStart ==
    /\ w_pc = "start"
    /\ \E ok \in BOOLEAN :
         IF ok
         THEN /\ w_pc' = "select"
              /\ UNCHANGED <<panicked, content, watched, osq, wakes>>
         ELSE OldWatcherEnds(TRUE)
    /\ UNCHANGED <<h_file_path, h_alive, ctl, call_tick, last_arg, w_msg, w_file_path, gen,
                   slot, lock, rstate, tstate, truns, out>>
    /\ UNCHANGED <<c_alive, hist>>
    /\ UNCHANGED <<rvars, uvars, o_content, lvars>>

\* file_watcher.rs 87-91: receive a request and replace both channel pairs
OldWatcherRecvControl ==
    /\ w_pc = "select"
    /\ ctl # << >>
    /\ w_msg' = Head(ctl)
    /\ ctl' = Tail(ctl)
    /\ ResetChannels
    /\ wakes' = [wakes EXCEPT ![gen] = IF LiveReader(gen) THEN @ ELSE 0]
    /\ w_pc' = "unwatch"
    /\ taken' = Append(taken, Head(ctl))
    /\ UNCHANGED <<h_file_path, h_alive, call_tick, last_arg, w_file_path, watched, osq,
                   slot, lock, rstate, tstate, truns, out, c_alive, sent>>
    /\ UNCHANGED <<rvars, uvars, ovars, lvars>>

\* file_watcher.rs 87-88: msg? on a control channel without sender: run returns
OldWatcherRecvDisconnected ==
    /\ w_pc = "select"
    /\ ctl = << >>
    /\ ~h_alive
    /\ OldWatcherEnds(FALSE)
    /\ UNCHANGED <<h_file_path, h_alive, ctl, call_tick, last_arg, w_msg, w_file_path, gen,
                   slot, lock, rstate, tstate, truns, out>>
    /\ UNCHANGED <<c_alive, hist>>
    /\ UNCHANGED <<rvars, uvars, o_content, lvars>>

\* file_watcher.rs 93-96: watcher.unwatch(p).expect(..)
OldWatcherUnwatch ==
    /\ w_pc = "unwatch"
    /\ IF w_file_path # None
       THEN \E ok \in BOOLEAN :
              IF ok
              THEN /\ watched' = watched \ {w_file_path}
                   /\ w_file_path' = None
                   /\ w_pc' = "watch"
                   /\ UNCHANGED <<panicked, content, osq, wakes>>
              ELSE /\ OldWatcherEnds(TRUE)
                   /\ UNCHANGED w_file_path
       ELSE /\ w_pc' = "watch"
            /\ UNCHANGED <<watched, w_file_path, panicked, content, osq, wakes>>
    /\ UNCHANGED <<h_file_path, h_alive, ctl, call_tick, last_arg, w_msg, gen,
                   slot, lock, rstate, tstate, truns, out>>
    /\ UNCHANGED <<c_alive, hist>>
    /\ UNCHANGED <<rvars, uvars, o_content, lvars>>

\* file_watcher.rs 98-110: watch the new path and spawn the thread that makes
\* and runs its Reader, or send the error with unwrap; for a request without a
\* path send the empty text on the content channel
OldWatcherWatch ==
    /\ w_pc = "watch"
    /\ IF w_msg # None
       THEN \E ok \in BOOLEAN :
              IF ok
              THEN /\ w_file_path' = w_msg
                   /\ watched' = watched \cup {w_msg}
                   /\ rstate' = [rstate EXCEPT ![gen] = "active"]
                   /\ tstate' = [tstate EXCEPT ![gen] = "init"]
                   /\ truns' = [truns EXCEPT ![gen] = gen]
                   /\ w_pc' = "select"
                   /\ w_msg' = None
                   /\ UNCHANGED <<out, content, panicked, osq, wakes>>
              ELSE IF c_alive
                   THEN /\ Len(out) < MaxOut
                        /\ out' = Append(out, Report(0, "werr"))
                        /\ w_pc' = "select"
                        /\ w_msg' = None
                        /\ UNCHANGED <<w_file_path, watched, rstate, tstate, truns,
                                       content, panicked, osq, wakes>>
                   ELSE /\ OldWatcherEnds(TRUE)
                        /\ UNCHANGED <<w_file_path, rstate, tstate, truns, out, w_msg>>
       ELSE /\ content' = Append(content, Report(0, "delta"))
            /\ w_pc' = "select"
            /\ UNCHANGED <<watched, w_file_path, rstate, tstate, truns, out, w_msg,
                           panicked, osq, wakes>>
    /\ UNCHANGED <<h_file_path, h_alive, ctl, call_tick, last_arg, gen, slot, lock>>
    /\ UNCHANGED <<c_alive, hist>>
    /\ UNCHANGED <<rvars, uvars, o_content, lvars>>

\* the current notify channel has a receiver: the Watcher's own until it moved
\* it into a Reader's thread (line 104), then that Reader's
WakeReceiverExists == rstate[gen] = "none" \/ LiveReader(gen)

\* file_watcher.rs 114: _watch_sender.send(()).unwrap()
OldWatcherForwardWake ==
    /\ w_pc = "select"
    /\ osq # << >>
    /\ IF WakeReceiverExists
       THEN /\ osq' = Tail(osq)
            /\ IF LiveReader(gen)
               THEN /\ wakes[gen] < MaxWake
                    /\ wakes' = [wakes EXCEPT ![gen] = @ + 1]
               ELSE wakes' = wakes
            /\ UNCHANGED <<w_pc, panicked, content, watched>>
       ELSE OldWatcherEnds(TRUE)
    /\ UNCHANGED <<h_file_path, h_alive, ctl, call_tick, last_arg, w_msg, w_file_path,
                   gen, slot, lock, rstate, tstate, truns, out>>
    /\ UNCHANGED <<c_alive, hist>>
    /\ UNCHANGED <<rvars, uvars, o_content, lvars>>

\* file_watcher.rs 115-117: self.app.send(msg.unwrap().map_err(..)).unwrap()
OldWatcherForwardContent ==
    /\ w_pc = "select"
    /\ content # << >>
    /\ IF c_alive
       THEN /\ Len(out) < MaxOut
            /\ out' = Append(out, Head(content))
            /\ content' = Tail(content)
            /\ UNCHANGED <<w_pc, panicked, watched, osq, wakes>>
       ELSE /\ OldWatcherEnds(TRUE)
            /\ UNCHANGED out
    /\ UNCHANGED <<h_file_path, h_alive, ctl, call_tick, last_arg, w_msg, w_file_path,
                   gen, slot, lock, rstate, tstate, truns>>
    /\ UNCHANGED <<c_alive, hist>>
    /\ UNCHANGED <<rvars, uvars, o_content, lvars>>

\* file_watcher.rs 72-76: the notify callback, on notify's thread, for a
\* data-modify event of a watched path; the send is unwrapped
OldOsNotify(p) ==
    /\ "callback" \notin panicked
    /\ p \in watched
    /\ Len(osq) < MaxOs
    /\ osq' = Append(osq, p)
    /\ UNCHANGED <<h_file_path, h_alive, ctl, call_tick, last_arg, w_pc, w_msg, w_file_path,
                   gen, content, wakes, watched, slot, lock, rstate, tstate, truns, out>>
    /\ UNCHANGED <<c_alive, hist>>
    /\ UNCHANGED <<rvars, uvars, ovars, lvars>>

\* file_watcher.rs 73: res.unwrap() when notify hands the callback an error
OldOsError ==
    /\ "callback" \notin panicked
    /\ watched # {}
    /\ panicked' = panicked \cup {"callback"}
    /\ UNCHANGED <<evars, rvars, uvars, o_content, lvars>>

\* file_watcher.rs 140-162, FileReader::run as the engine sees it: an update,
\* then the wait for a wake or the interval, again and again; a failed send or
\* a disconnected notify channel makes run return
OldReaderThread(t) ==
    \/ ReaderInitialUpdate(t)
    \/ ReaderWake(t)
    \/ ReaderDisconnected(t)
    \/ ReaderTimeout(t)

OldNext ==
    \/ \E x \in Targets : OldSetFilePath(x)
    \/ HandleDrop
    \/ OldWatcherStart
    \/ OldWatcherRecvControl
    \/ OldWatcherRecvDisconnected
    \/ OldWatcherUnwatch
    \/ OldWatcherWatch
    \/ OldWatcherForwardWake
    \/ OldWatcherForwardContent
    \/ \E t \in Gens : OldReaderThread(t)
    \/ \E p \in Paths : OldOsNotify(p)
    \/ OldOsError
    \/ ConsumerRecv
    \/ ConsumerDrop

OldSpec == Init /\ [][OldNext]_vars

(***************************************************************************)
(* The Reader of file_watcher.rs, lines 123-163, against the same file.    *)
(* Its cursor starts at 0, its buffer self.content is never cleared, and   *)
(* what it sends is a String without a truncation flag.                    *)
(***************************************************************************)
\* file_watcher.rs 124-138: content is "" and pos is 0; the thread is spawned
\* without a wake (line 104)
OldRInit ==
    /\ f_exists \in BOOLEAN
    /\ \E n \in 0..MaxOld : f_data = IF f_exists THEN OldContent(n) ELSE << >>
    /\ r_pos = 0
    /\ r_start = 0
    /\ r_pc = "start"
    /\ r_trunc = FALSE
    /\ r_by = "none"
    /\ r_wakes = 0
    /\ r_last = NoReport
    /\ emitted = << >>
    /\ n_app = 0
    /\ n_trunc = 0
    /\ kept = -1
    /\ ever_reset = FALSE
    /\ r_sends = 0

\* file_watcher.rs 157: read_to_string(&mut self.content) appends what it
\* reads to the buffer
OldBuffer(buffer, raw) == buffer \o raw

\* file_watcher.rs 153-162: open, seek to the cursor, read to the end into the
\* buffer, send a copy of the buffer; a failed call sends the error instead
OldUpdate(fail) ==
    /\ IF ~f_exists \/ fail
       THEN /\ r_last' = IoError
            /\ UNCHANGED <<r_pos, o_content>>
       ELSE /\ o_content' = OldBuffer(o_content, RawContent)
            /\ r_pos' = r_pos + Len(RawContent)
            /\ r_last' = Delta(o_content', FALSE)
    /\ r_pc' = "wait"
    /\ r_sends' = 1
    /\ UNCHANGED <<f_exists, f_data, r_trunc, emitted, r_start, n_app, n_trunc, kept,
                   ever_reset>>
    /\ UNCHANGED <<evars, uvars, panicked, lvars>>

\* file_watcher.rs 141-142: the first turn of the loop
OldRunInitial(fail) ==
    /\ r_pc = "start"
    /\ r_by' = "initial"
    /\ UNCHANGED r_wakes
    /\ OldUpdate(fail)

\* file_watcher.rs 144-146 and 142: a wake is received, the loop turns
OldRunWake(fail) ==
    /\ r_pc = "wait"
    /\ r_wakes > 0
    /\ r_wakes' = r_wakes - 1
    /\ r_by' = "wake"
    /\ OldUpdate(fail)

\* file_watcher.rs 148 and 142: the interval passed, the loop turns
OldRunTimeout(fail) ==
    /\ r_pc = "wait"
    /\ r_wakes = 0
    /\ r_by' = "timeout"
    /\ UNCHANGED r_wakes
    /\ OldUpdate(fail)

\* file_watcher.rs 114: the Watcher passes an OS notification on as a wake
OldWakeSent ==
    /\ r_pc = "wait"
    /\ r_wakes = 0
    /\ r_wakes' = 1
    /\ UNCHANGED <<f_exists, f_data, r_pos, r_pc, r_trunc, r_by, r_last, emitted,
                   r_start, n_app, n_trunc, kept, ever_reset, r_sends>>
    /\ UNCHANGED <<evars, uvars, ovars, lvars>>

OldReaderNext ==
    \/ \E fail \in BOOLEAN : OldRunInitial(fail)
    \/ \E fail \in BOOLEAN : OldRunWake(fail)
    \/ \E fail \in BOOLEAN : OldRunTimeout(fail)
    \/ OldWakeSent
    \/ FileCreate
    \/ \E c \in NewBytes : FileAppend(c)
    \/ \E k \in 0..MaxLen : FileTruncate(k)

OldReaderInit == OldRInit /\ EInit /\ UInit /\ OInit /\ LInit

OldReaderSpec == OldReaderInit /\ [][OldReaderNext]_vars

(***************************************************************************)
(* Claims about the caller, the older engine and the consumer              *)
(***************************************************************************)

\* the Watcher is at its watch step for a request that carries the empty path
HandlingEmpty == w_pc = "watch" /\ w_msg = Empty

\* C21: a request whose path is the empty string has the effect of a request
\* without a path: the Watcher's step for it queues the neutral delta, registers
\* nothing, makes no Reader and reports no subscription error.
C21_EmptyPathIsNoPath ==
    [][(HandlingEmpty /\ w_pc' # w_pc) =>
          /\ content' = Append(content, Report(0, "delta"))
          /\ watched' = watched
          /\ rstate' = rstate
          /\ out' = out]_vars

\* C22: a set_file_path call with a new value made after the Watcher has
\* returned (the control channel has no receiver) remembers the value, queues
\* nothing, and the calling thread goes on: it does not panic and the Handle
\* stays usable.
C22_SetFilePathAfterWatcherGone ==
    [][(w_pc = "done" /\ call_tick' # call_tick /\ last_arg' # h_file_path) =>
          /\ h_file_path' = last_arg'
          /\ ctl' = ctl
          /\ sent' = sent
          /\ panicked' = panicked
          /\ h_alive']_vars

\* the Watcher returned before any request; a path was remembered by a call
\* that sent nothing, and the caller still holds the Handle
C22_Witness ==
    /\ w_pc = "done"
    /\ gen = 0
    /\ h_file_path \in Paths
    /\ sent = << >>
    /\ h_alive
    /\ panicked = {}

\* the buffer holds only lines the view wrote itself
NoReaderLines(lines) == \A i \in 1..Len(lines) : lines[i] = 0

\* a LogView operation called set_file_path with a target other than the
\* remembered one
TargetChanged == h_file_path' # h_file_path

TickEnds == ui_pc = "tick" /\ ui_pc' = "idle"

\* C24: every UI tick drains the output channel: when handle_tick ends, none
\* of the reports that were queued when it began is left in the channel (the
\* consumer is the only receiver, so these are the first tick_queued reports).
C24_EveryTickDrains ==
    [][TickEnds => Len(out') + tick_queued <= Len(out)]_vars

\* a line brought by the Reader of an earlier request than the view's latest
StaleLine(l) == l \in Gens /\ l < Len(sent)

\* C30: after the view switched to another job or tab (it cleared its buffer
\* and requested the new target), no drain appends a line read from the file
\* of the earlier target: a visible view whose latest request names a path
\* never holds a line of a Reader older than that request.
C30_NoStaleContent ==
    (visible /\ sent # << >> /\ sent[Len(sent)] \in Paths) =>
        \A i \in 1..Len(log_content) : ~StaleLine(log_content[i])

\* the Watcher of file_watcher.rs is inside its loop
OldWatcherInLoop == w_pc \in {"select", "unwatch", "watch"}

\* C25: in the engine of file_watcher.rs no expected failure ends a thread
\* abnormally: while the Watcher is in its loop, a failed unwatch, a failed
\* watch, an OS notification error, a wake for a retired Reader or a output
\* channel without receiver makes no thread panic, and the Watcher leaves its
\* loop only when the control channel is disconnected.
C25_NoExpectedFailurePanics ==
    [][OldWatcherInLoop =>
          /\ panicked' = panicked
          /\ w_pc' = "done" => ~h_alive]_vars

\* a pass of the Reader of file_watcher.rs read new bytes
OldPassRead == r_pos' > r_pos

\* C26: the text the Reader of file_watcher.rs sends after a pass holds only
\* the bytes appended since its previous successful read, the bytes between
\* the old and the new cursor, and nothing of the earlier passes.
C26_OldReaderSendsOnlyNewBytes ==
    [][OldPassRead => r_last'.text = SubSeq(f_data, r_pos + 1, r_pos')]_vars

\* the Reader of pair g received a wake and its update pass sent a report
WakePass(g) ==
    /\ wakes'[g] < wakes[g]
    /\ Len(content') > Len(content)

\* C27: the wakes pending for a Reader between two update passes are treated as
\* one: the pass a wake starts leaves none of them pending, so k queued wakes
\* cause one pass and one report.
C27_PendingWakesAreOnePass ==
    [][\A g \in Gens : WakePass(g) => wakes'[g] = 0]_vars

\* a pass ended that had opened the file and read no byte from it
ReadNothing == PassEnded /\ r_pc = "opened" /\ r_last'.kind = "delta" /\ RawContent = << >>

\* exactly one message per pass, and messages only in passes
OneMessagePerPass ==
    /\ [](r_pc = "wait" => (r_sends = 1 /\ r_last.kind \in {"delta", "ioerr"}))
    /\ [](r_pc \in {"start", "opened"} => r_sends = 0)
    /\ [][r_last' # r_last => (PassEnded /\ r_sends' = 1)]_vars

\* C28 as stated: every update pass sends exactly one message, a delta or an I/O
\* error; the Reader sends only in a pass; and a pass that finds no new bytes
\* sends a delta with empty text and truncated = false.
C28_EmptyPassIsNeverTruncated ==
    /\ OneMessagePerPass
    /\ [][ReadNothing => r_last' = Delta(<< >>, FALSE)]_vars

\* C28: every update pass sends exactly one message, a delta or an I/O error;
\* the Reader sends only in a pass; and a pass that reads no byte sends a delta
\* with empty text whose truncated flag is the pass's finding that the file was
\* shorter than the cursor: false when the file did not shrink, true when it
\* was cut to nothing.
C28_OneMessagePerPass ==
    /\ OneMessagePerPass
    /\ [][ReadNothing => r_last' = Delta(<< >>, r_trunc)]_vars
    /\ [][(ReadNothing /\ r_trunc) => (f_data = << >> /\ r_pos = 0)]_vars

\* a pass found the file cut to nothing, read no byte and sent its one message,
\* an empty delta with the truncation flag
C28_Witness ==
    /\ r_pc = "wait"
    /\ r_sends = 1
    /\ r_last = Delta(<< >>, TRUE)
    /\ f_data = << >>
    /\ n_trunc = 1

\* the Watcher waits in its select and no request is on its way
WatcherIdle == w_pc = "select" /\ ctl = << >>

\* C29: whenever the control channel is empty and the Watcher is idle in its
\* wait, the Watcher's active path is the value the Handle remembers.
C29_HandleAndWatcherAgree ==
    WatcherIdle => w_file_path = h_file_path

(***************************************************************************)
(* Claims about truncation reports, the cursor, liveness of the switch,    *)
(* the hand-off, shutdown, the consumer's buffer and chunking              *)
(***************************************************************************)
\* the Reader with every failure and every writer of the file, where its
\* thread is scheduled, its timed wait ends and calls do not fail for ever:
\* a step of a pass in which no call fails is eventually taken
FairReaderSpec ==
    /\ ReaderInit
    /\ [][ReaderNext]_vars
    /\ WF_vars(PollStep)

\* a pass found the size below the cursor, reset the cursor and is about to read
TruncationDetected == r_pc = "opened" /\ r_trunc

\* the latest message of the Reader is a delta with truncated = true
TruncationReported == r_pc = "wait" /\ r_last.kind = "delta" /\ r_last.trunc

\* C31: every truncation a pass detects is reported: once a pass has found the
\* size below the cursor and reset the cursor, a delta with truncated = true
\* is eventually sent, also when the read of that pass fails and the pass
\* sends an I/O error.
C31_DetectedTruncationIsReported == TruncationDetected ~> TruncationReported

\* a pass whose File::open or metadata call fails
OpenOrMetadataFails ==
    \/ RunInitial("metadata")
    \/ RunWake("metadata")
    \/ RunTimeout("metadata")
    \/ (~f_exists /\ ReaderMoved)

\* C32: the cursor is changed only by steps of its Reader; a pass that ends
\* with a delta leaves it at the offset it read from plus the bytes read; it
\* decreases only in a pass that finds the size below it, and then to 0; a
\* pass that fails in open or metadata leaves it unchanged.
C32_CursorInvariant ==
    [][/\ (r_pos' # r_pos => ReaderMoved)
       /\ (DeltaSent => r_pos' = r_pos + Len(RawContent))
       /\ (r_pos' < r_pos =>
             (r_pc # "opened" /\ IsTruncated(Len(f_data), r_pos) /\ r_pos' = 0))
       /\ (OpenOrMetadataFails => r_pos' = r_pos)]_vars

\* the cursor fell to 0 in a pass that found a truncation, rose again with the
\* bytes of a later pass, and the pass after that failed in open or metadata
C32_Witness ==
    /\ ever_reset
    /\ n_trunc = 1
    /\ r_pos = 1
    /\ r_start = 1
    /\ r_pc = "wait"
    /\ r_last.kind = "ioerr"
    /\ emitted # << >>

\* C38: normalization does not depend on how the text is cut into reads: while
\* the file is only appended to, the deltas sent so far, concatenated, are the
\* normalization of all the bytes read taken as one text, whatever the places
\* at which the passes cut them.
C38_NormalizeIgnoresChunking ==
    (r_pc = "wait" /\ n_trunc = 0) => emitted = Normalize(ReadSoFar)

\* a carriage return and the newline after it were read by two passes
C38_Witness ==
    /\ n_trunc = 0
    /\ r_start = 1
    /\ r_pos = 3
    /\ f_data = <<OldByte, CR, LF>>
    /\ emitted = <<LF>>
    /\ r_last = Delta(<<LF>>, FALSE)

\* the engine where every thread is scheduled: each arm of the Watcher's select
\* that stays ready is eventually chosen, each step of the Watcher's handling
\* of a request that can be taken is, each Reader thread that can take a step
\* does, and the consumer goes on receiving
LiveSpec ==
    /\ Init
    /\ [][Next]_vars
    /\ \A t \in Gens : WF_vars(ReaderThread(t))
    /\ WF_vars(WatcherStart)
    /\ WF_vars(WatcherRecvControl)
    /\ WF_vars(WatcherRecvDisconnected)
    /\ WF_vars(WatcherUnwatch)
    /\ WF_vars(WatcherStopReader)
    /\ WF_vars(WatcherWatch)
    /\ WF_vars(WatcherStore)
    /\ WF_vars(WatcherForwardWake)
    /\ WF_vars(WatcherForwardContent)
    /\ WF_vars(ConsumerRecv)

\* the Watcher is between receiving a request and finishing its handling
WatcherHandling == w_pc \in {"unwatch", "stop", "watch", "store"}

\* the Watcher's loop runs: the notify watcher was created and the loop has not returned
WatcherInLoop == w_pc \notin {"start", "done"}

\* C33: switch handling never deadlocks: whenever the Watcher waits for the
\* mutex of the reader slot while a thread running a Reader holds it, the mutex
\* is eventually released; the handling of a request, once begun, eventually
\* ends with the Watcher back at its select; and every request submitted while
\* the Watcher's loop runs is eventually received and handled to the end.
C33_SwitchNeverDeadlocks ==
    /\ WatcherWaitsForLock ~> (lock = 0)
    /\ WatcherHandling ~> (w_pc = "select")
    /\ \A n \in 1..MaxReq :
         (n <= Len(sent) /\ WatcherInLoop) ~> (n <= Len(taken) /\ w_pc = "select")

\* the Watcher is at the lock of line 154 while the thread that holds the mutex
\* runs the superseded Reader, which has a wake left to receive
C33_Witness ==
    /\ w_pc = "stop"
    /\ lock # 0
    /\ tstate[lock] = "loop"
    /\ truns[lock] # gen
    /\ wakes[truns[lock]] > 0

\* thread t runs a Reader
Running(t) == tstate[t] \in {"init", "loop"}

\* a thread takes Reader g from the slot and starts it
Started(g) == rstate[g] = "created" /\ rstate'[g] = "active"

\* thread t has ended, or the mutex is held by the thread that runs the Reader
\* of the latest request: t is that thread or waits for it at line 179
EndedOrWithCurrentReader(t) ==
    \/ tstate[t] \in {"none", "done"}
    \/ (lock # 0 /\ ~Superseded(truns[lock]))

\* C34: a Reader is run by at most one thread, which holds the mutex and runs
\* it until it is retired; a thread that has ended either found the slot empty
\* or ran its Reader to retirement; a Reader is started only while its request
\* is the latest or while the Watcher is still handling the request that
\* supersedes it, before it has emptied the slot; and every thread ends, except
\* that it may run, or wait for the thread that runs, the Reader of the latest
\* request for as long as that Reader is not superseded.
C34_ReaderHandOff ==
    /\ [](\A t \in Gens : Running(t) =>
             /\ truns[t] # 0
             /\ rstate[truns[t]] = "active"
             /\ lock = t
             /\ \A u \in Gens \ {t} : truns[u] # truns[t])
    /\ [](\A t \in Gens : tstate[t] = "done" =>
             (truns[t] = 0 \/ rstate[truns[t]] = "retired"))
    /\ [][\A g \in Gens : Started(g) =>
             (g = gen \/ (gen = g + 1 /\ w_pc \in {"unwatch", "stop"}))]_vars
    /\ \A t \in Gens : <>[]EndedOrWithCurrentReader(t)

\* the thread spawned for the first request runs the Reader of the second, and
\* the thread spawned for the second waits for the mutex
C34_Witness ==
    /\ tstate[1] = "loop"
    /\ truns[1] = 2
    /\ tstate[2] = "spawned"
    /\ rstate[1] = "dropped"

\* no thread of the engine runs: the Watcher's run returned and every thread
\* spawned for a Reader ended
NoEngineThread == w_pc = "done" /\ \A t \in Gens : tstate[t] \in {"none", "done"}

\* C35: once the Handle is dropped the Watcher's loop eventually returns, after
\* the requests still queued, and every Reader thread eventually ends, the one
\* running the Active Reader included; no engine thread is left from then on.
C35_ShutdownLeavesNoThread ==
    /\ ~h_alive ~> NoEngineThread
    /\ [](NoEngineThread => []NoEngineThread)

\* the Handle is dropped while a Reader is Active and has a wake to receive,
\* and the Watcher still has a request to handle
C35_Witness ==
    /\ ~h_alive
    /\ w_pc = "select"
    /\ ctl # << >>
    /\ lock # 0
    /\ tstate[lock] = "loop"
    /\ truns[lock] = gen
    /\ wakes[gen] > 0

(***************************************************************************)
(* The view model: LogView (src/ui/logview.rs) with scroll_position,       *)
(* auto_scroll, file_changed_notification and truncated beside its buffer, *)
(* against any stream of reports.  A report says whether it is a success   *)
(* or an error, how many lines its text has (0 for the empty text) and its *)
(* is_truncated flag.  The calls of set_file_path are in the operations    *)
(* of the consumer above; they write no field of the view.                 *)
(***************************************************************************)
\* most lines in the text of one report
MaxText == 3

LvDelta(n, t) == [kind |-> "delta", n |-> n, trunc |-> t]
LvError == [kind |-> "error", n |-> 0, trunc |-> FALSE]
LvReports == {LvDelta(n, t) : n \in 0..MaxText, t \in BOOLEAN} \cup {LvError}

\* file_content.content.lines(), lines 193-195
LinesOf(r) == [i \in 1..r.n |-> i]

\* len().saturating_sub(1), lines 170 and 210
LastIndex(lines) == IF Len(lines) > 0 THEN Len(lines) - 1 ELSE 0

\* the fields check_refresh writes
ViewNow ==
    [content |-> lv_log_content, scroll |-> lv_scroll_position,
     truncated |-> lv_truncated, notification |-> lv_file_changed_notification]

\* line 184: only a success with a non-empty text is looked at
LooksAtEvery(r) == TRUE
IgnoresEmpty(r) == r.n > 0

\* lines 181-219: the body of the while loop for one received report
Received(v, r, auto) ==
    IF r.kind = "delta"
    THEN IF IgnoresEmpty(r)
         THEN LET marked == IF r.trunc THEN Append(v.content, 0) ELSE v.content
                  capped == LastLines(marked \o LinesOf(r))
              IN  [content |-> capped,
                   scroll |-> IF auto THEN LastIndex(capped) ELSE v.scroll,
                   truncated |-> (v.truncated \/ r.trunc),
                   notification |-> v.notification]
         ELSE v
    ELSE [v EXCEPT !.notification = "Error"]

\* lines 180-220: try_recv until the channel is empty
RECURSIVE DrainAll(_, _, _)
DrainAll(v, queue, auto) ==
    IF queue = << >> THEN v
    ELSE DrainAll(Received(v, Head(queue), auto), Tail(queue), auto)

\* the engine sends a report on the output channel
LvReportArrives(r) ==
    /\ Len(lv_rx) < MaxOut
    /\ lv_rx' = Append(lv_rx, r)
    /\ UNCHANGED <<lv_visible, lv_current_tab, lv_log_content, lv_scroll_position,
                   lv_auto_scroll, lv_file_changed_notification, lv_truncated>>
    /\ UNCHANGED <<evars, rvars, uvars, ovars>>

\* change_job, lines 75-94, with the lines it and watch_current_path write
LvChangeJobFields ==
    /\ lv_scroll_position' = 0
    /\ lv_log_content' = Cleared(lv_log_content) \o OwnLines
    /\ lv_current_tab' = "StdOut"
    /\ lv_file_changed_notification' = None
    /\ lv_truncated' = FALSE
    /\ UNCHANGED <<lv_auto_scroll, lv_rx>>
    /\ UNCHANGED <<evars, rvars, uvars, ovars>>

\* show, lines 70-73
LvShow ==
    /\ lv_visible' = TRUE
    /\ LvChangeJobFields

\* change_job called for the open view, app.rs 610 and 618
LvChangeJob ==
    /\ UNCHANGED lv_visible
    /\ LvChangeJobFields

\* toggle_tab, lines 104-131
LvToggleTab ==
    /\ lv_current_tab' = OtherTab(lv_current_tab)
    /\ lv_scroll_position' = 0
    /\ lv_log_content' = Cleared(lv_log_content) \o OwnLines
    /\ lv_file_changed_notification' = None
    /\ UNCHANGED <<lv_visible, lv_auto_scroll, lv_truncated, lv_rx>>
    /\ UNCHANGED <<evars, rvars, uvars, ovars>>

\* hide, lines 96-102
LvHide ==
    /\ lv_visible' = FALSE
    /\ UNCHANGED <<lv_current_tab, lv_log_content, lv_scroll_position, lv_auto_scroll,
                   lv_file_changed_notification, lv_truncated, lv_rx>>
    /\ UNCHANGED <<evars, rvars, uvars, ovars>>

\* scroll_up, lines 133-138
LvScrollUp ==
    /\ lv_scroll_position > 0
    /\ lv_scroll_position' = lv_scroll_position - 1
    /\ lv_auto_scroll' = FALSE
    /\ UNCHANGED <<lv_visible, lv_current_tab, lv_log_content,
                   lv_file_changed_notification, lv_truncated, lv_rx>>
    /\ UNCHANGED <<evars, rvars, uvars, ovars>>

\* scroll_down, lines 140-149
LvScrollDown ==
    /\ lv_scroll_position < LastIndex(lv_log_content)
    /\ lv_scroll_position' = lv_scroll_position + 1
    /\ lv_auto_scroll' = (lv_auto_scroll \/ lv_scroll_position' >= LastIndex(lv_log_content))
    /\ UNCHANGED <<lv_visible, lv_current_tab, lv_log_content,
                   lv_file_changed_notification, lv_truncated, lv_rx>>
    /\ UNCHANGED <<evars, rvars, uvars, ovars>>

\* toggle_auto_scroll, lines 166-172
LvToggleAutoScroll ==
    /\ lv_auto_scroll' = ~lv_auto_scroll
    /\ lv_scroll_position' =
          IF lv_auto_scroll' THEN LastIndex(lv_log_content) ELSE lv_scroll_position
    /\ UNCHANGED <<lv_visible, lv_current_tab, lv_log_content,
                   lv_file_changed_notification, lv_truncated, lv_rx>>
    /\ UNCHANGED <<evars, rvars, uvars, ovars>>

\* app.rs 701-703 and check_refresh, lines 174-229: a tick drains the channel
\* of the visible view
LvCheckRefresh ==
    /\ lv_visible
    /\ LET v == DrainAll(ViewNow, lv_rx, lv_auto_scroll)
       IN  /\ lv_log_content' = v.content
           /\ lv_scroll_position' = v.scroll
           /\ lv_truncated' = v.truncated
           /\ lv_file_changed_notification' = v.notification
    /\ lv_rx' = << >>
    /\ UNCHANGED <<lv_visible, lv_current_tab, lv_auto_scroll>>
    /\ UNCHANGED <<evars, rvars, uvars, ovars>>

\* app.rs 701: a tick of the hidden view calls nothing
LvTickWhileHidden ==
    /\ ~lv_visible
    /\ UNCHANGED vars

ViewNext ==
    \/ \E r \in LvReports : LvReportArrives(r)
    \/ LvShow
    \/ LvChangeJob
    \/ LvToggleTab
    \/ LvHide
    \/ LvScrollUp
    \/ LvScrollDown
    \/ LvToggleAutoScroll
    \/ LvCheckRefresh
    \/ LvTickWhileHidden

ViewSpec == Init /\ [][ViewNext]_vars

\* everything a drain pushes after the lines it finds, in order, nothing evicted
RECURSIVE Pushed(_, _)
Pushed(lines, queue) ==
    IF queue = << >> THEN lines
    ELSE LET r == Head(queue)
             marker == IF r.trunc THEN <<0>> ELSE << >>
         IN  IF r.kind = "delta" /\ r.n > 0
             THEN Pushed(lines \o marker \o LinesOf(r), Tail(queue))
             ELSE Pushed(lines, Tail(queue))

\* the newest lines of s, at most as many as the buffer may hold
Newest(s) == [i \in 1..(IF Len(s) > MaxLines THEN MaxLines ELSE Len(s)) |->
                 s[i + (IF Len(s) > MaxLines THEN Len(s) - MaxLines ELSE 0)]]

\* a step of check_refresh that received reports
DrainStep == Len(lv_rx') < Len(lv_rx)

\* C36: after any sequence of operations of the view the buffer holds at most
\* max_lines lines, and a drain leaves the newest max_lines of the lines it
\* found followed by the lines it pushed: what is evicted is the oldest.
C36_BufferKeepsNewestLines ==
    /\ [](Len(lv_log_content) <= MaxLines)
    /\ [][DrainStep => lv_log_content' = Newest(Pushed(lv_log_content, lv_rx))]_vars

\* a drain received a report of more lines than the buffer holds and kept the
\* last of them, with the view scrolled to the bottom
C36_Witness ==
    /\ lv_visible
    /\ lv_rx = << >>
    /\ lv_log_content = <<MaxText - 1, MaxText>>
    /\ lv_scroll_position = 1

\* every report waiting is a success with the empty text
OnlyEmptyDeltas == \A i \in 1..Len(lv_rx) : lv_rx[i].kind = "delta" /\ lv_rx[i].n = 0

\* every report waiting is an error or a success with the empty text
NoTextWaiting == \A i \in 1..Len(lv_rx) : lv_rx[i].n = 0

\* an error report is waiting
ErrorWaiting == \E i \in 1..Len(lv_rx) : lv_rx[i].kind = "error"

\* C37: a drain of successes with the empty text, is_truncated set or not,
\* changes neither the buffer nor scroll_position nor the truncated flag nor
\* the notification; an error report changes none of the first three either
\* and sets the notification; and no report leaves the channel while the view
\* is hidden.
C37_DrainFrame ==
    [][/\ (DrainStep /\ NoTextWaiting) =>
             /\ lv_log_content' = lv_log_content
             /\ lv_scroll_position' = lv_scroll_position
             /\ lv_truncated' = lv_truncated
       /\ (DrainStep /\ OnlyEmptyDeltas) =>
             lv_file_changed_notification' = lv_file_changed_notification
       /\ (DrainStep /\ ErrorWaiting) => lv_file_changed_notification' = "Error"
       /\ DrainStep => (lv_visible /\ lv_auto_scroll' = lv_auto_scroll)]_vars

\* the view received an error report and shows a full buffer, scrolled to the
\* top with auto-scroll off, no truncation seen
C37_Witness ==
    /\ lv_visible
    /\ lv_rx = << >>
    /\ lv_file_changed_notification = "Error"
    /\ Len(lv_log_content) = MaxLines
    /\ lv_scroll_position = 0
    /\ ~lv_auto_scroll
    /\ ~lv_truncated

====
